---------------------------- MODULE Spec2Model ----------------------------
(***************************************************************************)
(* dotkc: the encrypted vault file, the per-machine key file, the backups  *)
(* taken before every overwrite, and the command invocations that load,    *)
(* mutate and save the vault (bin/vault.mjs and the vault CLI in           *)
(* bin/dotkc.mjs).                                                         *)
(*                                                                         *)
(* The file system is a function from paths to files.  Every invocation of *)
(* the CLI is a short-lived process; several may run at once on the same   *)
(* vault.  Each file-system call of a save is one step, so that other      *)
(* invocations and a crash can fall between any two of them.               *)
(*                                                                         *)
(* Modelling assumptions:                                                  *)
(*  - crypto.randomBytes never repeats a value (rnd is a counter);         *)
(*  - AES-256-GCM is a keystream added to the plaintext plus a tag that    *)
(*    only the same key, iv and ciphertext reproduce;                      *)
(*  - the wall clock never steps backwards, and the model covers a window  *)
(*    inside one hour, so the date and hour fields of a backup name are    *)
(*    the same for all backups and are left out of the name.               *)
(***************************************************************************)
EXTENDS Integers, Sequences, FiniteSets, TLC

(* ------------------------------ bounds -------------------------------- *)

\* number of command invocations in one behaviour
MaxInvocations == 2

\* number of set commands in one behaviour of the retention scenario
MaxRetentionSaves == 4

\* number of clock ticks in one behaviour of the retention scenario
MaxRetentionTicks == 3

\* number of clock ticks (milliseconds) in one behaviour
MaxTicks == 1

\* number of commands typed one after the other in the command scenario
MaxCommands == 3

\* the concurrently running invocations (process slots; the slot is the pid)
Procs == {1, 2}

\* the wall clock at the start, in milliseconds within the hour: the clock
\* is about to roll the milliseconds field over from 999 to 000, and the
\* seconds field from one digit to two
StartTimes == {9999}

(* ------------------------- names and values --------------------------- *)

Services == {"acme"}

Categories == {"prod"}

KeyNames == {"TOKEN", "DB_URL"}

Values == {"abc123"}

\* every string that can occur in a vault, in a fixed order
Names ==
  <<"acme", "prod", "TOKEN", "DB_URL", "abc123", "", "constructor", "\n",
    "staging", "dev", "api-key", "xyz789", "12345678", "postgres://db">>

\* the property names every object has without owning them: obj[name] reads
\* them from Object.prototype (constructor stands for all of them)
Inherited == {"constructor"}


Code(s) == CHOOSE i \in 1..Len(Names) : Names[i] = s

\* the tokens "{" and "}" of the serialised form, and the size of the alphabet
LB == Len(Names) + 1

RB == Len(Names) + 2

Alphabet == Len(Names) + 3

\* the names of a set, in the order of Names
InOrder(S) == SelectSeq(Names, LAMBDA n : n \in S)

RECURSIVE Flatten(_)
Flatten(ss) == IF ss = <<>> THEN <<>> ELSE Head(ss) \o Flatten(Tail(ss))

(* ------------------------------ VaultData ----------------------------- *)

\* {} : the empty object
EmptyData == <<>>

\* data?.[service]?.[category]?.[K] != null
HasSecret(data, s, c, k) ==
  /\ s \in DOMAIN data
  /\ c \in DOMAIN data[s]
  /\ k \in DOMAIN data[s][c]

\* obj[name] = value, on an object modelled as a function
Put(obj, name, value) ==
  [n \in DOMAIN obj \cup {name} |-> IF n = name THEN value ELSE obj[n]]

\* delete obj[name]
Del(obj, name) == [n \in DOMAIN obj \ {name} |-> obj[n]]

\* obj[name] ?? {}
GetOrEmpty(obj, name) == IF name \in DOMAIN obj THEN obj[name] ELSE EmptyData

\* data[service] ??= {}; data[service][category] ??= {};
\* data[service][category][K] = secret
SetSecret(data, s, c, k, v) ==
  IF s \notin DOMAIN data /\ s \in Inherited
  THEN data    \* data[service] is an inherited object: the writes go to it
  ELSE LET svc == GetOrEmpty(data, s)
       IN  IF c \notin DOMAIN svc /\ c \in Inherited
           THEN Put(data, s, svc)    \* data[service][category] is inherited
           ELSE Put(data, s, Put(svc, c, Put(GetOrEmpty(svc, c), k, v)))

\* what data?.[service]?.[category] is: "own" (a category of the vault),
\* "inherited" (an object found on the prototype chain) or "undefined"
CategoryRef(data, s, c) ==
  IF s \in DOMAIN data
  THEN IF c \in DOMAIN data[s] THEN "own"
       ELSE IF c \in Inherited THEN "inherited" ELSE "undefined"
  ELSE IF s \in Inherited /\ c \in Inherited THEN "inherited" ELSE "undefined"

\* what data?.[service]?.[category]?.[K] is
SecretRef(data, s, c, k) ==
  IF HasSecret(data, s, c, k) THEN "own"
  ELSE IF CategoryRef(data, s, c) # "undefined" /\ k \in Inherited THEN "inherited"
  ELSE "undefined"

\* del: cat && (K in cat)
DelFinds(data, s, c, k) ==
  /\ CategoryRef(data, s, c) # "undefined"
  /\ HasSecret(data, s, c, k) \/ k \in Inherited

\* delete cat[K] without the pruning of the objects that became empty
DelSecret_NoPrune(data, s, c, k) ==
  IF HasSecret(data, s, c, k)
  THEN Put(data, s, Put(data[s], c, Del(data[s][c], k)))
  ELSE data

\* delete cat[K], then the category when Object.keys(cat) is empty, and then
\* the service when Object.keys(data[service]) is empty; deleting a name the
\* object does not own changes nothing
DelSecret(data, s, c, k) ==
  IF CategoryRef(data, s, c) = "own"
  THEN LET cat == Del(data[s][c], k)
           svc == IF DOMAIN cat = {} THEN Del(data[s], c) ELSE Put(data[s], c, cat)
       IN  IF DOMAIN cat = {} /\ DOMAIN svc = {} THEN Del(data, s)
           ELSE Put(data, s, svc)
  ELSE IF s \in DOMAIN data /\ DOMAIN data[s] = {} THEN Del(data, s)
  ELSE data

(* ----------------------- JSON.stringify / JSON.parse ------------------ *)

\* JSON.stringify of one category: { KEY value KEY value ... }
StringifyCategory(cat) ==
  <<LB>> \o Flatten([i \in 1..Len(InOrder(DOMAIN cat)) |->
             <<Code(InOrder(DOMAIN cat)[i]), Code(cat[InOrder(DOMAIN cat)[i]])>>])
         \o <<RB>>

\* JSON.stringify of one service: { category {..} category {..} ... }
StringifyService(svc) ==
  <<LB>> \o Flatten([i \in 1..Len(InOrder(DOMAIN svc)) |->
             <<Code(InOrder(DOMAIN svc)[i])>>
               \o StringifyCategory(svc[InOrder(DOMAIN svc)[i]])])
         \o <<RB>>

\* JSON.stringify(obj): { service {..} service {..} ... }
Stringify(data) ==
  <<LB>> \o Flatten([i \in 1..Len(InOrder(DOMAIN data)) |->
             <<Code(InOrder(DOMAIN data)[i])>>
               \o StringifyService(data[InOrder(DOMAIN data)[i]])])
         \o <<RB>>

\* the position of the "}" that closes the "{" at position i of text t
RECURSIVE Closing(_, _, _)
Closing(t, i, depth) ==
  IF t[i] = LB THEN Closing(t, i + 1, depth + 1)
  ELSE IF t[i] = RB THEN (IF depth = 1 THEN i ELSE Closing(t, i + 1, depth - 1))
  ELSE Closing(t, i + 1, depth)

\* the members KEY value between positions i and j of text t
RECURSIVE ParseCategory(_, _, _)
ParseCategory(t, i, j) ==
  IF i >= j THEN EmptyData
  ELSE Put(ParseCategory(t, i + 2, j), Names[t[i]], Names[t[i + 1]])

\* the members category {..} between positions i and j of text t
RECURSIVE ParseService(_, _, _)
ParseService(t, i, j) ==
  IF i >= j THEN EmptyData
  ELSE LET close == Closing(t, i + 1, 0)
       IN  Put(ParseService(t, close + 1, j), Names[t[i]],
               ParseCategory(t, i + 2, close))

\* the members service {..} between positions i and j of text t
RECURSIVE ParseData(_, _, _)
ParseData(t, i, j) ==
  IF i >= j THEN EmptyData
  ELSE LET close == Closing(t, i + 1, 0)
       IN  Put(ParseData(t, close + 1, j), Names[t[i]],
               ParseService(t, i + 2, close))

\* the position after the "}" that closes the object whose members start at
\* position i of text t, 0 when the text is no JSON text; depth 3 is the
\* vault, 2 a service, 1 a category
RECURSIVE MembersEnd(_, _, _)
MembersEnd(t, i, depth) ==
  IF i > Len(t) THEN 0
  ELSE IF t[i] = RB THEN i + 1
  ELSE IF t[i] < 1 \/ t[i] > Len(Names) \/ i + 1 > Len(t) THEN 0
  ELSE IF depth = 1
  THEN (IF t[i + 1] < 1 \/ t[i + 1] > Len(Names) THEN 0
        ELSE MembersEnd(t, i + 2, 1))
  ELSE IF t[i + 1] # LB THEN 0
  ELSE LET end == MembersEnd(t, i + 2, depth - 1)
       IN  IF end = 0 THEN 0 ELSE MembersEnd(t, end, depth)

\* JSON.parse(text) does not throw
IsJson(t) == Len(t) >= 2 /\ t[1] = LB /\ MembersEnd(t, 2, 3) = Len(t) + 1

\* JSON.parse(text)
Parse(t) == ParseData(t, 2, Len(t))

(* ------------------------------ CryptoCodec --------------------------- *)

\* the keystream AES-256 in counter mode adds to byte i of the plaintext
Keystream(key, iv, i) == (5 * key + 3 * iv + i) % Alphabet

\* cipher.update(plain) + cipher.final()
Cipher(key, iv, plain) ==
  [i \in 1..Len(plain) |-> (plain[i] + Keystream(key, iv, i)) % Alphabet]

\* a decipher that starts its counter one block late
Decipher_CounterOff(key, iv, ciphertext) ==
  [i \in 1..Len(ciphertext) |->
     (ciphertext[i] + Alphabet - Keystream(key, iv, i + 1)) % Alphabet]

\* decipher.update(ciphertext) + decipher.final(), the tag being right
Decipher(key, iv, ciphertext) ==
  [i \in 1..Len(ciphertext) |->
     (ciphertext[i] + Alphabet - Keystream(key, iv, i)) % Alphabet]

\* cipher.getAuthTag(): only the same key, iv and ciphertext give the same tag
AuthTag(key, iv, ciphertext) == [k |-> key, n |-> iv, c |-> ciphertext]

SupportedVersion == 1

encryptVaultJson(key, iv, obj) ==
  LET ciphertext == Cipher(key, iv, Stringify(obj))
  IN  [version |-> SupportedVersion, cipher |-> "aes-256-gcm", iv |-> iv,
       tag |-> AuthTag(key, iv, ciphertext), ciphertext |-> ciphertext]

\* a decryptVaultJson that never calls decipher.setAuthTag / final
decryptVaultJson_Unauthenticated(key, vo) ==
  IF vo.version # SupportedVersion \/ vo.cipher # "aes-256-gcm"
  THEN [error |-> "UnsupportedFormat", data |-> EmptyData]
  ELSE IF ~IsJson(Decipher(key, vo.iv, vo.ciphertext))
  THEN [error |-> "SyntaxError", data |-> EmptyData]
  ELSE [error |-> "none", data |-> Parse(Decipher(key, vo.iv, vo.ciphertext))]

\* a decryptVaultJson that deciphers first and looks at the format afterwards
decryptVaultJson_FormatLast(key, vo) ==
  IF vo.tag # AuthTag(key, vo.iv, vo.ciphertext)
  THEN [error |-> "AuthenticationFailed", data |-> EmptyData]
  ELSE IF vo.version # SupportedVersion \/ vo.cipher # "aes-256-gcm"
  THEN [error |-> "UnsupportedFormat", data |-> EmptyData]
  ELSE IF ~IsJson(Decipher(key, vo.iv, vo.ciphertext))
  THEN [error |-> "SyntaxError", data |-> EmptyData]
  ELSE [error |-> "none", data |-> Parse(Decipher(key, vo.iv, vo.ciphertext))]

\* [error, data]: the exception decryptVaultJson throws ("none": it returns data)
decryptVaultJson(key, vo) ==
  IF vo.version # SupportedVersion \/ vo.cipher # "aes-256-gcm"
  THEN [error |-> "UnsupportedFormat", data |-> EmptyData]
  ELSE IF vo.tag # AuthTag(key, vo.iv, vo.ciphertext)
  THEN [error |-> "AuthenticationFailed", data |-> EmptyData]
  ELSE IF ~IsJson(Decipher(key, vo.iv, vo.ciphertext))
  THEN [error |-> "SyntaxError", data |-> EmptyData]
  ELSE [error |-> "none", data |-> Parse(Decipher(key, vo.iv, vo.ciphertext))]

(* ------------------------------ file system --------------------------- *)

VaultPath == [base |-> "dotkc.vault", kind |-> "file", pid |-> 0, stamp |-> <<>>]

KeyPath == [base |-> "key", kind |-> "file", pid |-> 0, stamp |-> <<>>]

\* `${fp}.tmp-${process.pid}-${Date.now()}`
TmpPath(fp, pid, t) == [base |-> fp.base, kind |-> "tmp", pid |-> pid, stamp |-> <<t>>]

\* `${vaultPath}.bak-${timestampId()}`
BackupPath(fp, id) == [base |-> fp.base, kind |-> "bak", pid |-> 0, stamp |-> id]

\* 0o600
Mode600 == 384

\* the mode of a file some other tool created (0o644)
Mode644 == 6 * 64 + 4 * 8 + 4

File(bytes, mode, complete) == [bytes |-> bytes, mode |-> mode, complete |-> complete]

\* the directory after writing file f at path fp
WriteFile(dir, fp, f) == [q \in DOMAIN dir \cup {fp} |-> IF q = fp THEN f ELSE dir[q]]

\* the directory after unlinking path fp
Unlink(dir, fp) == [q \in DOMAIN dir \ {fp} |-> dir[q]]

\* fs.renameSync(from, to)
Rename(dir, from, to) ==
  IF from = to THEN dir ELSE Unlink(WriteFile(dir, to, dir[from]), from)

\* no permission bit set: fs.readFileSync fails with EACCES
ModeNone == 0

\* the owner may read the file (0o400)
Readable(f) == f.mode >= 4 * 64

\* readFileIfExists(fp): the file read, {} for null; null is what every
\* failure of fs.readFileSync gives, a missing file or one it may not read
readFileIfExists(dir, fp) ==
  IF fp \in DOMAIN dir /\ Readable(dir[fp]) THEN {dir[fp]} ELSE {}

(* -------------------------------- KeyStore ---------------------------- *)

\* null
NoKey == 0

\* the text key.toString('base64') + '\n' of a 32-byte key: a run of 44
\* base64 characters that decodes to 32 bytes
KeyText(key) == [run |-> 44, decoded |-> 32, key |-> key]

\* a key file that holds something else: a short note, and 48 random bytes
JunkTexts == { [run |-> 7, decoded |-> 5, key |-> NoKey],
               [run |-> 64, decoded |-> 48, key |-> NoKey] }

\* parseVaultKeyString(s): the first run of 40 or more base64 characters,
\* decoded, when it is 32 bytes long
parseVaultKeyString(text) ==
  IF text.run < 40 THEN NoKey
  ELSE IF text.decoded # 32 THEN NoKey
  ELSE text.key

readVaultKey(dir, keyPath) ==
  LET raw == readFileIfExists(dir, keyPath)
  IN  IF raw = {} THEN NoKey
      ELSE LET f == CHOOSE x \in raw : TRUE
           IN  IF f.complete THEN parseVaultKeyString(f.bytes) ELSE NoKey

(* ------------------------------- VaultStore --------------------------- *)

\* loadVault(vaultPath, key): [error, data, exists, raw]; a file cut short is
\* no JSON text, and JSON.parse throws
loadVault(dir, vaultPath, key) ==
  LET raw == readFileIfExists(dir, vaultPath)
  IN  IF raw = {}
      THEN [error |-> "none", data |-> EmptyData, exists |-> FALSE, raw |-> raw]
      ELSE LET f == CHOOSE x \in raw : TRUE
           IN  IF ~f.complete
               THEN [error |-> "SyntaxError", data |-> EmptyData,
                     exists |-> TRUE, raw |-> raw]
               ELSE [error |-> decryptVaultJson(key, f.bytes).error,
                     data |-> decryptVaultJson(key, f.bytes).data,
                     exists |-> TRUE, raw |-> raw]

(* ------------------------------ BackupManager ------------------------- *)

\* the decimal digits of n
RECURSIVE Digits(_)
Digits(n) == IF n < 10 THEN <<n>> ELSE Digits(n \div 10) \o <<n % 10>>

\* String(n).padStart(width, '0')
RECURSIVE padStart(_, _)
padStart(digits, width) ==
  IF Len(digits) >= width THEN digits ELSE padStart(<<0>> \o digits, width)

\* timestampId() at clock t (milliseconds within the hour): minutes, seconds
\* and milliseconds, each padded
timestampId(t) ==
  padStart(Digits(t \div 60000), 2)
    \o padStart(Digits((t \div 1000) % 60), 2)
    \o padStart(Digits(t % 1000), 3)

\* a < b in the order of Array.prototype.sort() on strings
RECURSIVE LexLess(_, _)
LexLess(a, b) ==
  IF b = <<>> THEN FALSE
  ELSE IF a = <<>> THEN TRUE
  ELSE IF Head(a) # Head(b) THEN Head(a) < Head(b)
  ELSE LexLess(Tail(a), Tail(b))

\* the paths of S, sorted
RECURSIVE Sorted(_)
Sorted(S) ==
  IF S = {} THEN <<>>
  ELSE LET first == CHOOSE x \in S : \A y \in S \ {x} : LexLess(x.stamp, y.stamp)
       IN  <<first>> \o Sorted(S \ {first})

\* the files of the directory named `${base}.bak-...`
BackupFiles(dir, vaultPath) ==
  {q \in DOMAIN dir : q.base = vaultPath.base /\ q.kind = "bak"}

listBackups(dir, vaultPath) == Sorted(BackupFiles(dir, vaultPath))

\* the directory after unlinking the first n paths of the list
RECURSIVE UnlinkFirst(_, _, _)
UnlinkFirst(dir, list, n) ==
  IF n <= 0 \/ list = <<>> THEN dir
  ELSE UnlinkFirst(Unlink(dir, Head(list)), Tail(list), n - 1)

pruneBackups(dir, vaultPath, keep) ==
  LET backups == listBackups(dir, vaultPath)
      extra   == Len(backups) - keep
  IN  IF extra <= 0 THEN dir ELSE UnlinkFirst(dir, backups, extra)

\* the vault exists, is a file and is not empty
HasVaultToBackUp(dir, vaultPath) == vaultPath \in DOMAIN dir

\* fs.copyFileSync(vaultPath, backupPath): the copy replaces a file already
\* at backupPath
copyFileSync(dir, from, to) == WriteFile(dir, to, dir[from])

\* a chmodSync that leaves the mode as it is
chmodSync_Noop(dir, fp, mode) == dir

\* fs.chmodSync(fp, mode)
chmodSync(dir, fp, mode) == [dir EXCEPT ![fp].mode = mode]

\* backupExistingVaultOrThrow(vaultPath, keep) at clock t, no call failing
backupExistingVaultOrThrow(dir, vaultPath, keep, t) ==
  IF ~HasVaultToBackUp(dir, vaultPath) THEN dir
  ELSE LET backupPath == BackupPath(vaultPath, timestampId(t))
       IN  pruneBackups(
             chmodSync(copyFileSync(dir, vaultPath, backupPath), backupPath, Mode600),
             vaultPath, keep)

\* the retention saveVault passes
BackupKeep == 3

(* -------------------------------- state ------------------------------- *)

VARIABLES
  fs,           \* the directory: path -> file, for the paths that exist
  now,          \* the wall clock, in milliseconds within the hour
  rnd,          \* the next value of crypto.randomBytes
  proc,         \* the invocation running in each process slot
  budget,       \* how many more invocations may start
  saves,        \* how many calls of saveVault returned
  snapshots,    \* the backup paths copied to, in the order of the copies
  backupKeepEnv, \* the DOTKC_BACKUP_KEEP setting of the environment
  nonces        \* the <<key, iv>> of every encryption so far, in order

vars == <<fs, now, rnd, proc, budget, saves, snapshots, backupKeepEnv, nonces>>

\* the last clock value of a behaviour
ClockEnd == (CHOOSE t \in StartTimes : \A u \in StartTimes : u <= t) + MaxTicks

Running == [status |-> -1, error |-> "running"]

Exit(status, error) == [status |-> status, error |-> error]

NoArgs == [service |-> "", category |-> "", key |-> "", value |-> ""]

Idle ==
  [pc |-> "idle", cmd |-> "none", args |-> NoArgs, key |-> NoKey,
   data |-> EmptyData, raw |-> {}, snapshot |-> "none", target |-> VaultPath,
   payload |-> KeyText(NoKey), tmp |-> VaultPath, then |-> "exit",
   force |-> FALSE, out |-> {}, exit |-> Running,
   child |-> [state |-> "none", env |-> EmptyData, code |-> 0]]

\* the key file of a machine that ran init: key 1
InstalledKey == {File(KeyText(1), Mode600, TRUE)}

\* the key files a machine can start with: none, a key, something else
InitialKeyFiles ==
  {{}} \cup {InstalledKey} \cup {{File(t, Mode644, TRUE)} : t \in JunkTexts}

\* the vault files a machine can start with: none, and a vault saved under
\* key 1 that holds one secret
InitialVaultFiles ==
  {{}} \cup {{File(encryptVaultJson(1, 1,
                     SetSecret(EmptyData, "acme", "prod", "TOKEN", "abc123")),
                   Mode600, TRUE)}}

\* the DOTKC_BACKUP_KEEP settings: unset (the default), and 0
BackupKeepSettings == {"unset", "0"}

\* the directory that holds key file k and vault file v ({}: no such file)
InitialDir(k, v) ==
  [q \in (IF k = {} THEN {} ELSE {KeyPath}) \cup (IF v = {} THEN {} ELSE {VaultPath})
     |-> IF q = KeyPath THEN CHOOSE f \in k : TRUE ELSE CHOOSE f \in v : TRUE]

\* the encryptions that made the vault file of a directory
NoncesOf(dir) ==
  IF VaultPath \in DOMAIN dir
  THEN << <<dir[VaultPath].bytes.tag.k, dir[VaultPath].bytes.iv>> >>
  ELSE <<>>

InitWith(keyFiles, vaultFiles, keepSettings, invocations) ==
  /\ \E k \in keyFiles, v \in vaultFiles : fs = InitialDir(k, v)
  /\ nonces = NoncesOf(fs)
  /\ now \in StartTimes
  /\ rnd = 2
  /\ proc = [p \in Procs |-> Idle]
  /\ budget = invocations
  /\ saves = 0
  /\ snapshots = <<>>
  /\ backupKeepEnv \in keepSettings

\* a machine with its key installed and the default settings
Init == InitWith({InstalledKey}, InitialVaultFiles, {"unset"}, MaxInvocations)

(* ------------------------------- actions ------------------------------ *)

\* a new process starts in slot p
CanStart(p) ==
  /\ proc[p].pc \in {"idle", "done", "crashed"}
  /\ budget > 0

\* the record of a process that is gone
Gone(rec, pc, status, error) ==
  [Idle EXCEPT !.pc = pc, !.cmd = rec.cmd, !.exit = Exit(status, error)]

\* process.exit(status), and an exception nobody catches (status 1)
Exited(cmd, status, error) ==
  [Idle EXCEPT !.pc = "done", !.cmd = cmd, !.exit = Exit(status, error)]

\* die(msg, code) in the vault-only CLI: the file calls die and neither
\* defines nor imports it, so the call throws a ReferenceError that nothing
\* catches, and the process ends with status 1 whatever msg and code are
die(cmd, msg, code) == Exited(cmd, 1, "ReferenceError")

\* console.log(lines), then process.exit(status)
Printed(cmd, lines, status, error) ==
  [Idle EXCEPT !.pc = "done", !.cmd = cmd, !.out = lines,
               !.exit = Exit(status, error)]

\* the vault commands that need a key: readVaultKey, then loadVault; the
\* process record once the vault is loaded, or once the command has failed
Loaded(cmd, args) ==
  LET key  == readVaultKey(fs, KeyPath)
      load == loadVault(fs, VaultPath, key)
  IN  IF key = NoKey THEN die(cmd, "InvalidKeyFormat", 2)
      ELSE IF load.error # "none" THEN Exited(cmd, 1, load.error)
      ELSE [Idle EXCEPT !.pc = "loaded", !.cmd = cmd, !.args = args,
                        !.key = key, !.data = load.data, !.raw = load.raw]

\* save(data): saveVault(vaultPath, key, data) begins
StartSave(rec, data) ==
  [rec EXCEPT !.pc = "backup", !.data = data, !.target = VaultPath, !.then = "exit"]

\* dotkc set <service> <category> <KEY> <value>
Set(p, s, c, k, v) ==
  /\ CanStart(p)
  /\ LET args == [service |-> s, category |-> c, key |-> k, value |-> v]
         rec  == Loaded("set", args)
     IN  proc' = [proc EXCEPT ![p] =
           IF rec.pc = "done" THEN rec
           ELSE IF v = "" THEN die("set", "EmptyValue", 2)
           ELSE StartSave(rec, SetSecret(rec.data, s, c, k, v))]
  /\ budget' = budget - 1
  /\ UNCHANGED <<fs, now, rnd, saves, snapshots, backupKeepEnv, nonces>>

\* secret = (await readAllStdin()).replace(/\r?\n$/, '')
TrimNewline(text) ==
  CASE text = "\n" -> ""
    [] text = "abc123\n" -> "abc123"
    [] OTHER -> text

\* dotkc set <service> <category> <KEY> -   with text on the standard input
SetStdin(p, s, c, k, text) == Set(p, s, c, k, TrimNewline(text))

\* data[service] ??= {}; data[service][category] ??= {}; and then
\* data[service][category][k] = parsed[k] for every picked k
ImportSecrets(data, s, c, entries) ==
  IF s \notin DOMAIN data /\ s \in Inherited
  THEN data
  ELSE LET svc == GetOrEmpty(data, s)
           cat == GetOrEmpty(svc, c)
       IN  IF c \notin DOMAIN svc /\ c \in Inherited
           THEN Put(data, s, svc)
           ELSE Put(data, s, Put(svc, c,
                  [n \in DOMAIN cat \cup DOMAIN entries |->
                     IF n \in DOMAIN entries THEN entries[n] ELSE cat[n]]))

\* dotkc import <service> <category> <dotenv_file>, on a terminal: entries
\* are the picked keys of the parsed file with their values
Import(p, s, c, entries) ==
  /\ CanStart(p)
  /\ LET args == [service |-> s, category |-> c, key |-> "", value |-> ""]
         rec  == Loaded("import", args)
     IN  proc' = [proc EXCEPT ![p] =
           IF rec.pc = "done" THEN rec
           ELSE StartSave(rec, ImportSecrets(rec.data, s, c, entries))]
  /\ budget' = budget - 1
  /\ UNCHANGED <<fs, now, rnd, saves, snapshots, backupKeepEnv, nonces>>

\* Object.keys(svc) without a category, Object.keys(cat) with one; an object
\* found on the prototype chain has no keys of its own
ListOut(data, s, c) ==
  IF c = ""
  THEN IF s \in DOMAIN data THEN DOMAIN data[s] ELSE {}
  ELSE IF CategoryRef(data, s, c) = "own" THEN DOMAIN data[s][c] ELSE {}

\* dotkc list <service> [category]   (c = "": no category given)
List(p, s, c) ==
  /\ CanStart(p)
  /\ LET args == [service |-> s, category |-> c, key |-> "", value |-> ""]
         rec  == Loaded("list", args)
     IN  proc' = [proc EXCEPT ![p] =
           IF rec.pc = "done" THEN rec
           ELSE [Printed("list", ListOut(rec.data, s, c), 0, "OK")
                   EXCEPT !.args = args]]
  /\ budget' = budget - 1
  /\ UNCHANGED <<fs, now, rnd, saves, snapshots, backupKeepEnv, nonces>>

\* String(v) of a value found on the prototype chain
NativeCode == "[native code]"

\* dotkc get <service> <category> <KEY>
Get(p, s, c, k) ==
  /\ CanStart(p)
  /\ LET args == [service |-> s, category |-> c, key |-> k, value |-> ""]
         rec  == Loaded("get", args)
         ref  == SecretRef(rec.data, s, c, k)
     IN  proc' = [proc EXCEPT ![p] =
           IF rec.pc = "done" THEN rec
           ELSE IF ref = "undefined" THEN die("get", "NOT_FOUND", 3)
           ELSE Printed("get",
                        {IF ref = "own" THEN rec.data[s][c][k] ELSE NativeCode},
                        0, "OK")]
  /\ budget' = budget - 1
  /\ UNCHANGED <<fs, now, rnd, saves, snapshots, backupKeepEnv, nonces>>

\* what status finds: out.keyExists, out.vaultExists, out.canDecrypt
StatusOut(dir) ==
  LET key == readVaultKey(dir, KeyPath)
  IN  [keyExists   |-> KeyPath \in DOMAIN dir,
       vaultExists |-> VaultPath \in DOMAIN dir,
       canDecrypt  |-> /\ key # NoKey
                       /\ VaultPath \in DOMAIN dir
                       /\ loadVault(dir, VaultPath, key).error = "none"]

\* a status that makes sure there is a key file, as init does
Status_Ensuring(p) ==
  /\ CanStart(p)
  /\ fs' = IF KeyPath \in DOMAIN fs THEN fs
           ELSE WriteFile(fs, KeyPath, File(KeyText(rnd), Mode600, TRUE))
  /\ proc' = [proc EXCEPT ![p] =
       Printed("status", {StatusOut(fs')},
               IF StatusOut(fs').canDecrypt THEN 0 ELSE 2,
               IF StatusOut(fs').canDecrypt THEN "OK" ELSE "CannotDecrypt")]
  /\ budget' = budget - 1
  /\ UNCHANGED <<now, rnd, saves, snapshots, backupKeepEnv, nonces>>

\* dotkc status: prints what it finds, exits 0 when the vault decrypts, else 2
Status(p) ==
  /\ CanStart(p)
  /\ proc' = [proc EXCEPT ![p] =
       Printed("status", {StatusOut(fs)},
               IF StatusOut(fs).canDecrypt THEN 0 ELSE 2,
               IF StatusOut(fs).canDecrypt THEN "OK" ELSE "CannotDecrypt")]
  /\ budget' = budget - 1
  /\ UNCHANGED <<fs, now, rnd, saves, snapshots, backupKeepEnv, nonces>>

\* dotkc del <service> <category> <KEY>
DelCmd(p, s, c, k) ==
  /\ CanStart(p)
  /\ LET args == [service |-> s, category |-> c, key |-> k, value |-> ""]
         rec  == Loaded("del", args)
     IN  proc' = [proc EXCEPT ![p] =
           IF rec.pc = "done" THEN rec
           ELSE IF ~DelFinds(rec.data, s, c, k)
           THEN Printed("del", {"NOT_FOUND"}, 3, "NotFound")
           ELSE StartSave(rec, DelSecret(rec.data, s, c, k))]
  /\ budget' = budget - 1
  /\ UNCHANGED <<fs, now, rnd, saves, snapshots, backupKeepEnv, nonces>>

\* saveVault when backupExistingVaultOrThrow throws: nothing catches it
AfterBackupThrows_Swallowed(rec) == [rec EXCEPT !.pc = "write", !.snapshot = "failed"]

AfterBackupThrows(rec) == Gone(rec, "done", 1, "BackupFailed")

\* backupExistingVaultOrThrow, the first call of saveVault: it returns, or
\* copyFileSync throws, or chmodSync throws
Backup(p, outcome) ==
  /\ proc[p].pc = "backup"
  /\ \/ /\ outcome = "ok"
        /\ fs' = backupExistingVaultOrThrow(fs, VaultPath, BackupKeep, now)
        /\ proc' = [proc EXCEPT ![p].pc = "write",
                      ![p].snapshot = IF HasVaultToBackUp(fs, VaultPath)
                                      THEN "taken" ELSE "skipped"]
        /\ snapshots' = IF HasVaultToBackUp(fs, VaultPath)
                        THEN Append(snapshots, BackupPath(VaultPath, timestampId(now)))
                        ELSE snapshots
        /\ HasVaultToBackUp(fs, VaultPath) => Readable(fs[VaultPath])
     \/ /\ outcome = "copyFileSync throws"
        /\ HasVaultToBackUp(fs, VaultPath)
        /\ fs' = fs
        /\ proc' = [proc EXCEPT ![p] = AfterBackupThrows(proc[p])]
        /\ snapshots' = snapshots
     \/ /\ outcome = "chmodSync throws"
        /\ HasVaultToBackUp(fs, VaultPath)
        /\ fs' = copyFileSync(fs, VaultPath, BackupPath(VaultPath, timestampId(now)))
        /\ proc' = [proc EXCEPT ![p] = AfterBackupThrows(proc[p])]
        /\ snapshots' = Append(snapshots, BackupPath(VaultPath, timestampId(now)))
  /\ UNCHANGED <<now, rnd, budget, saves, backupKeepEnv, nonces>>

\* an iv taken from the clock
randomIv_FromClock == now

\* encryptVaultJson: iv = crypto.randomBytes(12)
randomIv == rnd

\* the bytes atomicWriteFile is given: the envelope of a fresh encryption for
\* the vault, the key text for the key file
Payload(p) ==
  IF proc[p].target = VaultPath
  THEN encryptVaultJson(proc[p].key, randomIv, proc[p].data)
  ELSE proc[p].payload

\* atomicWriteFile: the path of the temporary file, written in place
TmpFor_InPlace(fp, pid, t) == fp

\* atomicWriteFile: the path of the temporary file
TmpFor(fp, pid, t) == TmpPath(fp, pid, t)

\* atomicWriteFile: fs.writeFileSync(tmp, data, {mode}) creates the temporary
\* file and has written a part of the data
Write(p) ==
  /\ proc[p].pc = "write"
  /\ LET tmp == TmpFor(proc[p].target, p, now)
     IN  /\ fs' = WriteFile(fs, tmp, File(Payload(p), Mode600, FALSE))
         /\ proc' = [proc EXCEPT ![p].pc = "flush", ![p].tmp = tmp,
                                 ![p].payload = Payload(p)]
  /\ rnd' = IF proc[p].target = VaultPath THEN rnd + 1 ELSE rnd
  /\ nonces' = IF proc[p].target = VaultPath
               THEN Append(nonces, <<proc[p].key, Payload(p).iv>>)
               ELSE nonces
  /\ UNCHANGED <<now, budget, saves, snapshots, backupKeepEnv>>

\* fs.writeFileSync(tmp, ...) has written all the data
Flush(p) ==
  /\ proc[p].pc = "flush"
  /\ fs' = [fs EXCEPT ![proc[p].tmp].complete = TRUE]
  /\ proc' = [proc EXCEPT ![p].pc = "rename"]
  /\ UNCHANGED <<now, rnd, budget, saves, snapshots, backupKeepEnv, nonces>>

\* fs.renameSync(tmp, fp)
RenameTmp(p) ==
  /\ proc[p].pc = "rename"
  /\ fs' = Rename(fs, proc[p].tmp, proc[p].target)
  /\ proc' = [proc EXCEPT ![p].pc = "chmod"]
  /\ UNCHANGED <<now, rnd, budget, saves, snapshots, backupKeepEnv, nonces>>

\* fs.chmodSync(fp, mode); atomicWriteFile returns: saveVault returns and the
\* command prints OK, or ensureVaultReady goes on to load the vault
Chmod(p) ==
  /\ proc[p].pc = "chmod"
  /\ fs' = chmodSync(fs, proc[p].target, Mode600)
  /\ proc' = [proc EXCEPT ![p] = IF proc[p].then = "load"
                                 THEN [proc[p] EXCEPT !.pc = "load"]
                                 ELSE Gone(proc[p], "done", 0, "OK")]
  /\ saves' = IF proc[p].target = VaultPath THEN saves + 1 ELSE saves
  /\ UNCHANGED <<now, rnd, budget, snapshots, backupKeepEnv, nonces>>

\* the process is killed (or the machine stops) after the temporary file was
\* created and before atomicWriteFile returns
Crash(p) ==
  /\ proc[p].pc \in {"flush", "rename", "chmod"}
  /\ proc' = [proc EXCEPT ![p] = Gone(proc[p], "crashed", 137, "killed")]
  /\ UNCHANGED <<fs, now, rnd, budget, saves, snapshots, backupKeepEnv, nonces>>

\* atomicWriteFile throws: fs.writeFileSync after it wrote a part of the data
\* (the disk is full), fs.renameSync, or fs.chmodSync; there is no try around
\* them, in atomicWriteFile, saveVault or the command, so the process ends
Throw(p) ==
  /\ proc[p].pc \in {"flush", "rename", "chmod"}
  /\ proc' = [proc EXCEPT ![p] = Gone(proc[p], "done", 1, "IOFailure")]
  /\ UNCHANGED <<fs, now, rnd, budget, saves, snapshots, backupKeepEnv, nonces>>

\* what saveVault returns: it has no return statement ({}: undefined)
saveVaultResult(dir, vaultPath) == {}

\* a millisecond passes
TickTo(end) ==
  /\ now < end
  /\ now' = now + 1
  /\ UNCHANGED <<fs, rnd, proc, budget, saves, snapshots, backupKeepEnv, nonces>>

Tick == TickTo(ClockEnd)

(* --------------------------- key commands ----------------------------- *)

\* generateVaultKey(): 32 fresh random bytes
generateVaultKey == rnd

\* ensureKeyFile when readVaultKey returned null (no key file, or a file that
\* holds no 32-byte key): a new key is generated and written
ensureKeyFile(rec) ==
  [rec EXCEPT !.pc = "write", !.key = generateVaultKey, !.target = KeyPath,
              !.payload = KeyText(generateVaultKey), !.then = "load"]

\* dotkc vault init: ensureVaultReady calls ensureKeyFile(keyPath)
VaultInit(p) ==
  /\ CanStart(p)
  /\ LET key == readVaultKey(fs, KeyPath)
         rec == [Idle EXCEPT !.cmd = "init"]
     IN  /\ proc' = [proc EXCEPT ![p] =
              IF key # NoKey THEN [rec EXCEPT !.pc = "load", !.key = key]
              ELSE ensureKeyFile(rec)]
         /\ rnd' = IF key # NoKey THEN rnd ELSE rnd + 1
  /\ budget' = budget - 1
  /\ UNCHANGED <<fs, now, saves, snapshots, backupKeepEnv, nonces>>

\* ensureVaultReady, after ensureKeyFile: loadVault, and saveVault({}) when
\* there is no vault file
LoadStep(p) ==
  /\ proc[p].pc = "load"
  /\ LET load == loadVault(fs, VaultPath, proc[p].key)
     IN  proc' = [proc EXCEPT ![p] =
           IF load.error # "none" THEN Gone(proc[p], "done", 1, load.error)
           ELSE IF ~load.exists
           THEN StartSave([proc[p] EXCEPT !.raw = load.raw], EmptyData)
           ELSE Gone(proc[p], "done", 0, "OK")]
  /\ UNCHANGED <<fs, now, rnd, budget, saves, snapshots, backupKeepEnv, nonces>>

\* confirmPrompt(promptText, {defaultNo}): false without a terminal
confirmPrompt(isTTY, answer, defaultNo) ==
  IF ~isTTY THEN FALSE
  ELSE IF answer = "" THEN ~defaultNo
  ELSE answer \in {"y", "yes"}

\* what the user can type at a prompt
Answers == {"", "y", "n"}

\* the key material given to key install: another machine's key, or not a key
SuppliedTexts == {KeyText(9)} \cup JunkTexts

\* dotkc key install <src> [--force], up to the write
KeyInstall(p, text, force, isTTY, answer) ==
  /\ CanStart(p)
  /\ LET key == parseVaultKeyString(text)
         rec == [Idle EXCEPT !.cmd = "key install"]
     IN  proc' = [proc EXCEPT ![p] =
           IF key = NoKey THEN die("key install", "InvalidKeyFormat", 2)
           ELSE IF KeyPath \in DOMAIN fs /\ ~force
                   /\ ~confirmPrompt(isTTY, answer, TRUE)
           THEN die("key install", "Cancelled", 1)
           ELSE [rec EXCEPT !.pc = "install", !.key = key, !.target = KeyPath,
                            !.payload = KeyText(key), !.force = force]]
  /\ budget' = budget - 1
  /\ UNCHANGED <<fs, now, rnd, saves, snapshots, backupKeepEnv, nonces>>

\* key install: fs.writeFileSync(keyPath, ..., {mode: 0o600}); a file that is
\* already there keeps its mode
InstallWrite(p) ==
  /\ proc[p].pc = "install"
  /\ fs' = WriteFile(fs, KeyPath,
                     File(proc[p].payload,
                          IF KeyPath \in DOMAIN fs THEN fs[KeyPath].mode ELSE Mode600,
                          TRUE))
  /\ proc' = [proc EXCEPT ![p].pc = "installed"]
  /\ UNCHANGED <<now, rnd, budget, saves, snapshots, backupKeepEnv, nonces>>

\* key install: fs.chmodSync(keyPath, 0o600), then OK; after the same two
\* calls in init, ensureVaultReady goes on to load the vault
InstallChmod(p) ==
  /\ proc[p].pc = "installed"
  /\ KeyPath \in DOMAIN fs
  /\ fs' = chmodSync(fs, KeyPath, Mode600)
  /\ proc' = [proc EXCEPT ![p] = IF proc[p].then = "load"
                                 THEN [proc[p] EXCEPT !.pc = "load"]
                                 ELSE Gone(proc[p], "done", 0, "OK")]
  /\ UNCHANGED <<now, rnd, budget, saves, snapshots, backupKeepEnv, nonces>>

\* dotkc init: ensureVaultReady({allowOverwrite: true}), up to loadVault: a
\* key file is created when there is none; one that holds no key ends the
\* command; one that holds a key is overwritten with a new key when the user
\* confirms, and kept otherwise
InitCmd(p, isTTY, answer) ==
  /\ CanStart(p)
  /\ LET key  == readVaultKey(fs, KeyPath)
         rec  == [Idle EXCEPT !.cmd = "init", !.args = [isTTY |-> isTTY]]
         make == KeyPath \notin DOMAIN fs
                   \/ (key # NoKey /\ confirmPrompt(isTTY, answer, TRUE))
     IN  /\ proc' = [proc EXCEPT ![p] =
              IF KeyPath \notin DOMAIN fs THEN ensureKeyFile(rec)
              ELSE IF key = NoKey THEN die("init", "InvalidKeyFormat", 2)
              ELSE IF confirmPrompt(isTTY, answer, TRUE)
              THEN [rec EXCEPT !.pc = "install", !.key = generateVaultKey,
                               !.target = KeyPath,
                               !.payload = KeyText(generateVaultKey),
                               !.then = "load"]
              ELSE [rec EXCEPT !.pc = "load", !.key = key]]
         /\ rnd' = IF make THEN rnd + 1 ELSE rnd
  /\ budget' = budget - 1
  /\ UNCHANGED <<fs, now, saves, snapshots, backupKeepEnv, nonces>>

\* dotkc init: ensureVaultReady from loadVault on: an empty vault is saved
\* when there is none, and over the one there is when the user confirms
ReadyStep(p, answer) ==
  /\ proc[p].pc = "load"
  /\ proc[p].cmd = "init"
  /\ LET load == loadVault(fs, VaultPath, proc[p].key)
     IN  proc' = [proc EXCEPT ![p] =
           IF load.error # "none" THEN Gone(proc[p], "done", 1, load.error)
           ELSE IF ~load.exists
           THEN StartSave([proc[p] EXCEPT !.raw = load.raw], EmptyData)
           ELSE IF VaultPath \in DOMAIN fs
                   /\ confirmPrompt(proc[p].args.isTTY, answer, TRUE)
           THEN StartSave([proc[p] EXCEPT !.raw = load.raw], EmptyData)
           ELSE Gone(proc[p], "done", 0, "OK")]
  /\ UNCHANGED <<fs, now, rnd, budget, saves, snapshots, backupKeepEnv, nonces>>

(* --------------------------------- copy ------------------------------- *)

\* copy: the destination category becomes the key set of the source category
CopyCategory(data, src, dst) ==
  Put(data, dst.service,
      Put(GetOrEmpty(data, dst.service), dst.category,
          data[src.service][src.category]))

\* a copy that overwrites without being asked to
Copy_Forced(p, src, dst, force) ==
  /\ CanStart(p)
  /\ LET args == [src |-> src, dst |-> dst, force |-> force]
         rec  == Loaded("copy", args)
     IN  proc' = [proc EXCEPT ![p] =
           IF rec.pc = "done" THEN rec
           ELSE IF ListOut(rec.data, src.service, src.category) = {}
           THEN [Exited("copy", 3, "NotFound") EXCEPT !.args = args]
           ELSE StartSave(rec, CopyCategory(rec.data, src, dst))]
  /\ budget' = budget - 1
  /\ UNCHANGED <<fs, now, rnd, saves, snapshots, backupKeepEnv, nonces>>

\* dotkc copy <srcService>:<srcCategory> <dstService>:<dstCategory> [--force]:
\* refused when the destination category has keys and --force is not given
Copy(p, src, dst, force) ==
  /\ CanStart(p)
  /\ LET args == [src |-> src, dst |-> dst, force |-> force]
         rec  == Loaded("copy", args)
     IN  proc' = [proc EXCEPT ![p] =
           IF rec.pc = "done" THEN rec
           ELSE IF ListOut(rec.data, src.service, src.category) = {}
           THEN [Exited("copy", 3, "NotFound") EXCEPT !.args = args]
           ELSE IF ListOut(rec.data, dst.service, dst.category) # {} /\ ~force
           THEN [Exited("copy", 2, "DestinationExists") EXCEPT !.args = args]
           ELSE StartSave(rec, CopyCategory(rec.data, src, dst))]
  /\ budget' = budget - 1
  /\ UNCHANGED <<fs, now, rnd, saves, snapshots, backupKeepEnv, nonces>>

(* --------------------------------- run -------------------------------- *)

\* the characters of a string
Chars(text) ==
  CASE text = "" -> <<>>
    [] text = "\n" -> <<"\n">>
    [] text = "abc123" -> <<"a", "b", "c", "1", "2", "3">>
    [] text = "xyz789" -> <<"x", "y", "z", "7", "8", "9">>
    [] text = "12345678" -> <<"1", "2", "3", "4", "5", "6", "7", "8">>
    [] text = "postgres://db"
         -> <<"p", "o", "s", "t", "g", "r", "e", "s", ":", "/", "/", "d", "b">>
    [] text = "TOKEN" -> <<"T", "O", "K", "E", "N">>
    [] text = "DB_URL" -> <<"D", "B", "_", "U", "R", "L">>
    [] text = "api-key" -> <<"a", "p", "i", "-", "k", "e", "y">>
    [] text = "constructor"
         -> <<"c", "o", "n", "s", "t", "r", "u", "c", "t", "o", "r">>
    [] text = "[native code]"
         -> <<"[", "n", "a", "t", "i", "v", "e", " ", "c", "o", "d", "e", "]">>

\* /^[A-Z_][A-Z0-9_]*$/.test(k)
IsEnvName(k) ==
  LET upper == {"A", "B", "C", "D", "E", "F", "G", "H", "I", "J", "K", "L", "M",
                "N", "O", "P", "Q", "R", "S", "T", "U", "V", "W", "X", "Y", "Z"}
      digit == {"0", "1", "2", "3", "4", "5", "6", "7", "8", "9"}
      cs    == Chars(k)
  IN  /\ Len(cs) >= 1
      /\ cs[1] \in upper \cup {"_"}
      /\ \A i \in 2..Len(cs) : cs[i] \in upper \cup digit \cup {"_"}

\* a redaction that hides whole only what is shorter than 8 characters
redact_Below8(v) ==
  LET cs  == Chars(v)
      len == Len(cs)
  IN  IF len < 8
      THEN [text |-> <<"*", "*", "*">>, len |-> len]
      ELSE [text |-> SubSeq(cs, 1, 4) \o <<"...">> \o SubSeq(cs, len - 3, len),
            len |-> len]

\* redact(v): `*** (len=N)` up to 8 characters, else the first 4 and the
\* last 4 characters and (len=N); len is N
redact(v) ==
  LET cs  == Chars(v)
      len == Len(cs)
  IN  IF len <= 8
      THEN [text |-> <<"*", "*", "*">>, len |-> len]
      ELSE [text |-> SubSeq(cs, 1, 4) \o <<"...">> \o SubSeq(cs, len - 3, len),
            len |-> len]

\* one spec of run resolved on top of what the specs before it gave: an
\* exact spec gives its key, a wildcard spec the keys of the category that
\* look like environment names; ok is FALSE where the code calls die
ResolveOne(data, sp, before) ==
  IF sp.kind = "exact"
  THEN LET ref == SecretRef(data, sp.service, sp.category, sp.key)
       IN  IF ref = "undefined" THEN [ok |-> FALSE, resolved |-> before]
           ELSE [ok |-> TRUE,
                 resolved |-> Put(before, sp.key,
                                  IF ref = "own"
                                  THEN data[sp.service][sp.category][sp.key]
                                  ELSE NativeCode)]
  ELSE IF CategoryRef(data, sp.service, sp.category) # "own"
       THEN [ok |-> FALSE, resolved |-> before]
       ELSE LET cat == data[sp.service][sp.category]
                hit == {k \in DOMAIN cat : IsEnvName(k)}
            IN  IF DOMAIN cat = {} THEN [ok |-> FALSE, resolved |-> before]
                ELSE [ok |-> TRUE,
                      resolved |-> [k \in DOMAIN before \cup hit |->
                                      IF k \in hit THEN cat[k] ELSE before[k]]]

\* for (const sp of specs) ...: the specs in order, up to the first die
RECURSIVE Resolve(_, _, _)
Resolve(data, specs, before) ==
  IF specs = <<>> THEN [ok |-> TRUE, resolved |-> before]
  ELSE LET one == ResolveOne(data, Head(specs), before)
       IN  IF one.ok THEN Resolve(data, Tail(specs), one.resolved) ELSE one

\* dotkc run [--unsafe-values] <spec>[,<spec>...]   (no `--`: inspect mode)
RunInspect(p, specs, unsafeValues) ==
  /\ CanStart(p)
  /\ LET rec == Loaded("run", NoArgs)
         r   == Resolve(rec.data, specs, EmptyData)
         end == IF rec.pc = "done" THEN rec
                ELSE IF ~r.ok THEN die("run", "NOT_FOUND", 3)
                ELSE Printed("run",
                             {[key |-> k,
                               shown |-> IF unsafeValues
                                         THEN [text |-> Chars(r.resolved[k]),
                                               len |-> -1]
                                         ELSE redact(r.resolved[k])] :
                                k \in DOMAIN r.resolved},
                             0, "OK")
     IN  proc' = [proc EXCEPT ![p] =
           [end EXCEPT !.args = [mode |-> "inspect", specs |-> specs,
                                 unsafeValues |-> unsafeValues]]]
  /\ budget' = budget - 1
  /\ UNCHANGED <<fs, now, rnd, saves, snapshots, backupKeepEnv, nonces>>

\* loadDotenvIntoEnv(env, filePath, override) in the vault-only CLI: the file
\* calls it and neither defines nor imports it, so the call throws a
\* ReferenceError that nothing catches
loadDotenvIntoEnv(cmd, env, parsed, override) == Exited(cmd, 1, "ReferenceError")

\* dotkc run [--dotenv [--dotenv-override]] <spec>[,<spec>...] -- <cmd>
\* with processEnv the environment of dotkc and parsed the entries of .env:
\* the env is layered, the command is spawned with it, its exit handler is
\* registered, and then process.exit(0) ends dotkc
RunExec(p, specs, enableDotenv, dotenvOverride, processEnv, parsed) ==
  /\ CanStart(p)
  /\ LET rec == Loaded("run", NoArgs)
         r   == Resolve(rec.data, specs, EmptyData)
         env == [k \in DOMAIN processEnv \cup DOMAIN r.resolved |->
                   IF k \in DOMAIN r.resolved THEN r.resolved[k] ELSE processEnv[k]]
         end == IF rec.pc = "done" THEN rec
                ELSE IF enableDotenv
                THEN loadDotenvIntoEnv("run", processEnv, parsed, dotenvOverride)
                ELSE IF ~r.ok THEN die("run", "NOT_FOUND", 3)
                ELSE [Exited("run", 0, "OK") EXCEPT
                        !.child = [state |-> "running", env |-> env, code |-> 0]]
     IN  proc' = [proc EXCEPT ![p] =
           [end EXCEPT !.args = [mode |-> "exec", specs |-> specs,
                                 enableDotenv |-> enableDotenv,
                                 dotenvOverride |-> dotenvOverride,
                                 processEnv |-> processEnv, parsed |-> parsed]]]
  /\ budget' = budget - 1
  /\ UNCHANGED <<fs, now, rnd, saves, snapshots, backupKeepEnv, nonces>>

\* the spawned command exits with a code: the handler of its exit event
\* would call process.exit(code ?? 1) in a dotkc that is still running; a
\* dotkc that is gone has no handler left
ChildExit(p, code) ==
  /\ proc[p].child.state = "running"
  /\ proc' = [proc EXCEPT ![p] =
       IF proc[p].pc = "done"
       THEN [proc[p] EXCEPT !.child.state = "exited", !.child.code = code]
       ELSE [Exited("run", code, "child") EXCEPT
               !.args = proc[p].args,
               !.child = [proc[p].child EXCEPT !.state = "exited", !.code = code]]]
  /\ UNCHANGED <<fs, now, rnd, budget, saves, snapshots, backupKeepEnv, nonces>>

\* the calls of saveVault and atomicWriteFile, none failing
SaveSteps ==
  \/ \E p \in Procs : Backup(p, "ok")
  \/ \E p \in Procs : Write(p)
  \/ \E p \in Procs : Flush(p)
  \/ \E p \in Procs : RenameTmp(p)
  \/ \E p \in Procs : Chmod(p)

\* concurrent set commands, with failing snapshots, crashes and the clock
NextSave ==
  \/ \E p \in Procs, s \in Services, c \in Categories, k \in KeyNames,
        v \in Values \cup {""} : Set(p, s, c, k, v)
  \/ SaveSteps
  \/ \E p \in Procs, o \in {"copyFileSync throws", "chmodSync throws"} :
        Backup(p, o)
  \/ \E p \in Procs : Crash(p)
  \/ Tick

SpecSave == Init /\ [][NextSave]_vars

\* the same with del commands
Next ==
  \/ NextSave
  \/ \E p \in Procs, s \in Services, c \in Categories, k \in KeyNames :
        DelCmd(p, s, c, k)

Spec == Init /\ [][Next]_vars

(* ---- the command scenario: commands typed one after the other -------- *)

\* the one process slot the commands of this scenario run in
Sequential == {CHOOSE p \in Procs : \A q \in Procs : p <= q}

\* the names and values given on the command line and the standard input
ArgServices == {"acme", "constructor"}

ArgCategories == {"prod", "constructor"}

ArgKeys == {"TOKEN", "constructor"}

ArgTexts == {"abc123", "", "\n"}

StdinTexts == {"abc123\n", "\n"}

\* the picked entries of a dotenv file: at least one key, values may be empty
ImportEntries == UNION {[K -> {"abc123", ""}] : K \in (SUBSET ArgKeys) \ {{}}}

InitCommands == InitWith({InstalledKey}, {{}}, {"unset"}, MaxCommands)

NextCommands ==
  \/ \E p \in Sequential, s \in ArgServices, c \in ArgCategories, k \in ArgKeys,
        v \in ArgTexts : Set(p, s, c, k, v)
  \/ \E p \in Sequential, s \in ArgServices, c \in ArgCategories, k \in ArgKeys,
        t \in StdinTexts : SetStdin(p, s, c, k, t)
  \/ \E p \in Sequential, s \in ArgServices, c \in ArgCategories, k \in ArgKeys :
        Get(p, s, c, k)
  \/ \E p \in Sequential, s \in ArgServices, c \in ArgCategories, k \in ArgKeys :
        DelCmd(p, s, c, k)
  \/ \E p \in Sequential, s \in ArgServices, c \in ArgCategories \cup {""} :
        List(p, s, c)
  \/ \E p \in Sequential, s \in ArgServices, c \in ArgCategories,
        e \in ImportEntries : Import(p, s, c, e)
  \/ SaveSteps

SpecCommands == InitCommands /\ [][NextCommands]_vars

(* ---- the run scenario: run, with and without a command, on a vault ---- *)

\* the vault of the run scenario
RunData ==
  SetSecret(SetSecret(SetSecret(SetSecret(EmptyData,
    "acme", "prod", "TOKEN", "abc123"),
    "acme", "prod", "DB_URL", "postgres://db"),
    "acme", "prod", "api-key", "xyz789"),
    "acme", "staging", "TOKEN", "12345678")

\* parseSpec of the specs given to run, <spec> and <spec>,<spec>: exact
\* ones (of a key that is no environment name, of a key that is not
\* stored) and wildcards (of a category that is not stored)
RunSpecLists ==
  LET spec(kind, c, k) ==
        [kind |-> kind, service |-> "acme", category |-> c, key |-> k]
      token    == spec("exact", "prod", "TOKEN")
      apiKey   == spec("exact", "prod", "api-key")
      missing  == spec("exact", "staging", "DB_URL")
      prod     == spec("wildcard", "prod", "")
      staging  == spec("wildcard", "staging", "")
      absent   == spec("wildcard", "dev", "")
  IN  { <<token>>, <<apiKey>>, <<missing>>, <<prod>>, <<staging>>, <<absent>>,
        <<prod, staging>>, <<token, missing>>, <<absent, token>>,
        <<apiKey, staging>> }

InitRun ==
  InitWith({InstalledKey}, {{File(encryptVaultJson(1, 1, RunData), Mode600, TRUE)}},
           {"unset"}, MaxCommands)

NextRun ==
  \/ \E p \in Sequential, specs \in RunSpecLists, unsafeValues \in BOOLEAN :
        RunInspect(p, specs, unsafeValues)
  \/ \E p \in Sequential, specs \in RunSpecLists, enableDotenv \in BOOLEAN,
        dotenvOverride \in BOOLEAN,
        processEnv \in {EmptyData, [n \in {"TOKEN"} |-> "xyz789"]} :
        RunExec(p, specs, enableDotenv, dotenvOverride, processEnv,
                [n \in {"TOKEN", "DB_URL"} |-> "xyz789"])
  \/ \E p \in Procs, code \in {0, 7} : ChildExit(p, code)

SpecRun == InitRun /\ [][NextRun]_vars

(* ---- the copy scenario: copies between categories of one vault -------- *)

NextCopy ==
  \/ \E p \in Sequential, force \in BOOLEAN,
        src, dst \in {[service |-> "acme", category |-> c] :
                        c \in {"prod", "staging", "dev"}} :
        Copy(p, src, dst, force)
  \/ SaveSteps

SpecCopy == InitRun /\ [][NextCopy]_vars

(* ---- the failure scenario: set commands whose file-system calls throw -- *)

NextFail ==
  \/ \E p \in Procs, s \in Services, c \in Categories, k \in KeyNames,
        v \in Values : Set(p, s, c, k, v)
  \/ SaveSteps
  \/ \E p \in Procs, o \in {"copyFileSync throws", "chmodSync throws"} :
        Backup(p, o)
  \/ \E p \in Procs : Throw(p)

SpecFail == Init /\ [][NextFail]_vars

(* ---- the retention scenario: set after set, on a vault that exists ---- *)

InitRetention ==
  InitWith({InstalledKey}, InitialVaultFiles \ {{}}, BackupKeepSettings,
           MaxRetentionSaves)

NextRetention ==
  \/ \E p \in Procs : Set(p, "acme", "prod", "TOKEN", "abc123")
  \/ SaveSteps
  \/ TickTo((CHOOSE t \in StartTimes : \A u \in StartTimes : u <= t)
              + MaxRetentionTicks)

SpecRetention == InitRetention /\ [][NextRetention]_vars

(* ------ the key scenario: init and key install on any key file -------- *)

InitKey == InitWith(InitialKeyFiles, InitialVaultFiles, {"unset"}, MaxInvocations)

NextKey ==
  \/ \E p \in Procs : VaultInit(p)
  \/ \E p \in Procs : LoadStep(p)
  \/ \E p \in Procs, text \in SuppliedTexts, force \in BOOLEAN,
        isTTY \in BOOLEAN, answer \in Answers :
        KeyInstall(p, text, force, isTTY, answer)
  \/ \E p \in Procs : InstallWrite(p)
  \/ \E p \in Procs : InstallChmod(p)
  \/ SaveSteps

SpecKey == InitKey /\ [][NextKey]_vars

(* ---- the init scenario: init and key install, one after the other, on -- *)
(* ---- a machine whose key file and vault file fit each other           -- *)

InitInit ==
  LET vo == encryptVaultJson(1, 1,
              SetSecret(EmptyData, "acme", "prod", "TOKEN", "abc123"))
  IN  \/ InitWith({{}}, {{}, {File(vo, Mode600, TRUE)}}, {"unset"}, MaxCommands)
      \/ InitWith({{File(KeyText(1), m, TRUE)} : m \in {Mode600, Mode644}},
                  {{}} \cup {{File(vo, m, TRUE)} : m \in {Mode600, Mode644}},
                  {"unset"}, MaxCommands)

NextInit ==
  \/ \E p \in Sequential, isTTY \in BOOLEAN, answer \in Answers :
        InitCmd(p, isTTY, answer)
  \/ \E p \in Procs, answer \in Answers : ReadyStep(p, answer)
  \/ \E p \in Sequential, text \in SuppliedTexts, force \in BOOLEAN,
        isTTY \in BOOLEAN, answer \in Answers :
        KeyInstall(p, text, force, isTTY, answer)
  \/ \E p \in Procs : InstallWrite(p)
  \/ \E p \in Procs : InstallChmod(p)
  \/ SaveSteps

SpecInit == InitInit /\ [][NextInit]_vars

(* ---- the load scenario: get on a vault file in any condition ---------- *)

\* the keys of the codec and load scenarios
CodecKeys == {1, 2}

\* the data of the vaults of the load scenario
LoadDatas ==
  { EmptyData,
    SetSecret(EmptyData, "acme", "prod", "TOKEN", "abc123"),
    SetSecret(SetSecret(EmptyData, "acme", "prod", "TOKEN", "abc123"),
              "acme", "prod", "DB_URL", "abc123") }

\* the envelopes encryptVaultJson wrote
Sealed == {encryptVaultJson(k, 1, d) : k \in CodecKeys, d \in LoadDatas}

\* vo with one byte of its ciphertext changed
CiphertextChanges(vo) ==
  {[vo EXCEPT !.ciphertext[i] = b] :
     i \in 1..Len(vo.ciphertext), b \in 0..(Alphabet - 1)} \ {vo}

\* vo with its tag changed: the tag of another iv or another ciphertext (a
\* tag that fits this iv and ciphertext under another key is a forgery, which
\* changing bits does not produce)
TagChanges(vo) ==
  {[vo EXCEPT !.tag = AuthTag(k, n, c)] :
     k \in CodecKeys, n \in {vo.iv, vo.iv + 1},
     c \in {vo.ciphertext, <<>>}}
  \ {[vo EXCEPT !.tag = AuthTag(k, vo.iv, vo.ciphertext)] : k \in CodecKeys}

\* vo with a version or a cipher this program does not write
FormatChanges(vo) ==
  {[vo EXCEPT !.version = v, !.cipher = c] :
     v \in {SupportedVersion, SupportedVersion + 1},
     c \in {"aes-256-gcm", "aes-128-gcm"}} \ {vo}

\* the vault files of the load scenario: none; what a save wrote; that with
\* a byte changed, with another format, cut short, or unreadable
LoadVaultFiles ==
  LET changed == Sealed \cup UNION {CiphertextChanges(vo) \cup TagChanges(vo) : vo \in Sealed}
      any     == changed \cup UNION {FormatChanges(vo) : vo \in Sealed \cup UNION {TagChanges(vo) : vo \in Sealed}}
  IN  {{}} \cup {{File(vo, Mode600, TRUE)} : vo \in any}
           \cup {{File(vo, Mode600, FALSE)} : vo \in Sealed}
           \cup {{File(vo, ModeNone, TRUE)} : vo \in Sealed}

InitLoad ==
  InitWith({{File(KeyText(k), Mode600, TRUE)} : k \in CodecKeys}, LoadVaultFiles,
           {"unset"}, MaxInvocations)

NextLoad ==
  \E p \in Procs, s \in Services, c \in Categories, k \in KeyNames : Get(p, s, c, k)

SpecLoad == InitLoad /\ [][NextLoad]_vars

(* ---- the reading scenario: status, get, list and run in inspect mode, --- *)
(* ---- whatever key file and vault file the machine has                --- *)

InitRead ==
  LET one == SetSecret(EmptyData, "acme", "prod", "TOKEN", "abc123")
      vo  == encryptVaultJson(1, 1, one)
  IN  InitWith(InitialKeyFiles,
               {{}} \cup {{File(encryptVaultJson(k, 1, one), Mode600, TRUE)} :
                            k \in CodecKeys}
                    \cup {{File(v, Mode600, TRUE)} : v \in FormatChanges(vo)}
                    \cup {{File(vo, Mode600, FALSE)}, {File(vo, ModeNone, TRUE)}},
               {"unset"}, MaxCommands)

NextRead ==
  \/ \E p \in Sequential : Status(p)
  \/ \E p \in Sequential, s \in Services, c \in Categories, k \in KeyNames :
        Get(p, s, c, k)
  \/ \E p \in Sequential, s \in Services, c \in Categories \cup {""} :
        List(p, s, c)
  \/ \E p \in Sequential, specs \in RunSpecLists, unsafeValues \in BOOLEAN :
        RunInspect(p, specs, unsafeValues)

SpecRead == InitRead /\ [][NextRead]_vars

(* ---- the codec scenario: saveVault(vaultPath, K, D) for any K and D ---- *)

CategoryMaps == UNION {[K -> Values \cup {""}] : K \in SUBSET KeyNames}

ServiceMaps == UNION {[C -> CategoryMaps] : C \in SUBSET Categories}

VaultDatas == UNION {[S -> ServiceMaps] : S \in SUBSET Services}

InitCodec ==
  /\ \E v \in InitialVaultFiles : fs = InitialDir(InstalledKey, v)
  /\ now \in StartTimes
  /\ rnd = 2
  /\ proc \in [Procs -> {StartSave([Idle EXCEPT !.cmd = "save", !.key = k], d) :
                           k \in CodecKeys, d \in VaultDatas}]
  /\ budget = 0
  /\ saves = 0
  /\ snapshots = <<>>
  /\ backupKeepEnv = "unset"
  /\ nonces = NoncesOf(fs)

SpecCodec == InitCodec /\ [][SaveSteps]_vars

(* ----------------------- the claims, under SpecSave -------------------- *)

\* the steps process p can take inside backupExistingVaultOrThrow
BackupStep(p) ==
  \E o \in {"ok", "copyFileSync throws", "chmodSync throws"} : Backup(p, o)

\* the secret at a path of the vault data: {value}, or {} when there is none
Lookup(data, s, c, k) == IF HasSecret(data, s, c, k) THEN {data[s][c][k]} ELSE {}

\* C1: when the vault file exists and is not the file this invocation loaded
\* (another writer replaced it after the load), the save fails with
\* ConflictDetected and writes nothing.
C1_StaleSaveIsRejected ==
  [][\A p \in Procs :
       ( /\ BackupStep(p)
         /\ VaultPath \in DOMAIN fs
         /\ proc[p].raw # {}
         /\ readFileIfExists(fs, VaultPath) # proc[p].raw )
       => /\ proc'[p].exit.error = "ConflictDetected"
          /\ fs' = fs]_vars

\* C2: no silent data loss: when an invocation's save replaces the vault file,
\* every secret other than the one its own command set or deleted is in the
\* new vault exactly as it was in the vault file it replaces.
C2_NoSilentDataLoss ==
  [][\A p \in Procs :
       ( /\ RenameTmp(p)
         /\ proc[p].target = VaultPath
         /\ VaultPath \in DOMAIN fs
         /\ loadVault(fs, VaultPath, proc[p].key).error = "none" )
       => \A s \in Services, c \in Categories, k \in KeyNames :
            <<s, c, k>> # <<proc[p].args.service, proc[p].args.category,
                            proc[p].args.key>>
            => Lookup(loadVault(fs', VaultPath, proc[p].key).data, s, c, k)
                 = Lookup(loadVault(fs, VaultPath, proc[p].key).data, s, c, k)]_vars

\* C3: the vault path never holds a partial file; no step of a save before
\* the rename, and no crash, changes the file at the vault path; and the file
\* changes only by a rename that puts a complete new envelope there.
C3_AtomicReplace ==
  [][ /\ VaultPath \in DOMAIN fs' => fs'[VaultPath].complete
      /\ \A p \in Procs :
           (proc[p].target = VaultPath /\ (Write(p) \/ Flush(p) \/ Crash(p)))
           => readFileIfExists(fs', VaultPath) = readFileIfExists(fs, VaultPath)
      /\ readFileIfExists(fs', VaultPath) # readFileIfExists(fs, VaultPath)
         => \E p \in Procs :
              /\ proc[p].pc \in {"rename", "chmod"}
              /\ proc[p].target = VaultPath
              /\ fs'[VaultPath].bytes = proc[p].payload ]_vars

\* C3 witness: a save was killed with its temporary file half written, and
\* the vault file is there
C3_CrashBeforeRename ==
  /\ VaultPath \in DOMAIN fs
  /\ \E p \in Procs : proc[p].pc = "crashed"
  /\ \E q \in DOMAIN fs : q.kind = "tmp" /\ q.base = VaultPath.base /\ ~fs[q].complete

C6_BackupsAreNewAndImmutable ==
  [][ /\ \A p \in Procs :
           (BackupStep(p) /\ HasVaultToBackUp(fs, VaultPath) /\ fs' # fs)
           => LET b == BackupPath(VaultPath, timestampId(now))
              IN  /\ b \notin DOMAIN fs
                  /\ b \in DOMAIN fs'
                  /\ fs'[b].bytes = fs[VaultPath].bytes
      /\ \A b \in BackupFiles(fs, VaultPath) \cap BackupFiles(fs', VaultPath) :
           fs'[b].bytes = fs[b].bytes ]_vars

\* C15: a save that succeeded returns the fingerprint of the file it wrote,
\* the one a load of that file would observe.
C15_SaveReturnsFingerprint ==
  [][\A p \in Procs :
       (Chmod(p) /\ proc[p].target = VaultPath /\ proc'[p].exit.status = 0)
       => /\ saveVaultResult(fs', VaultPath) # {}
          /\ saveVaultResult(fs', VaultPath) \subseteq
               {f \in readFileIfExists(fs', VaultPath) : f.bytes = proc[p].payload}]_vars

(* ------------------------ the claims, under SpecFail ------------------- *)

\* the temporary files of saves of the vault
VaultTmpFiles(dir) == {q \in DOMAIN dir : q.kind = "tmp" /\ q.base = VaultPath.base}

\* C16: when a step of a save after the snapshot throws, the save fails, the
\* vault file is the one that was there before this save, and no temporary
\* file of this save is left in the directory.
C16_FailedSaveLeavesNothing ==
  [][\A p \in Procs :
       (Throw(p) /\ proc[p].target = VaultPath)
       => /\ proc'[p].exit.status # 0
          /\ proc[p].tmp \notin VaultTmpFiles(fs')
          /\ VaultPath \in DOMAIN fs' => fs'[VaultPath].bytes # proc[p].payload]_vars

\* C24: two invocations that failed in different ways of the taxonomy ended
\* with different exit statuses, and none of them with the status of success.
C24_DistinctExitStatus ==
  LET Taxonomy == {"InvalidKeyFormat", "AuthenticationFailed", "UnsupportedFormat",
                   "ConflictDetected", "NotFound", "EmptyValue",
                   "DestinationExists", "BackupFailed", "IOFailure"}
      failed(p) == proc[p].pc = "done" /\ proc[p].exit.error \in Taxonomy
  IN  \A p, q \in Procs :
        /\ failed(p) => proc[p].exit.status # 0
        /\ (failed(p) /\ failed(q) /\ proc[p].exit.error # proc[q].exit.error)
           => proc[p].exit.status # proc[q].exit.status

(* --------------------- the claims, under SpecRetention ----------------- *)

\* the last n different paths of a sequence of paths
RECURSIVE LastDistinct(_, _)
LastDistinct(seq, n) ==
  IF n = 0 \/ seq = <<>> THEN {}
  ELSE LET last == seq[Len(seq)]
           rest == SelectSeq(seq, LAMBDA q : q # last)
       IN  {last} \cup LastDistinct(rest, n - 1)

\* C5: after N+k saves with retention N (k >= 1), exactly N backup files
\* remain, and they are the N most recently created ones.
C5_RetentionExact ==
  saves >= BackupKeep + 1
  => /\ Cardinality(BackupFiles(fs, VaultPath)) = BackupKeep
     /\ BackupFiles(fs, VaultPath) = LastDistinct(snapshots, BackupKeep)

\* C7: with DOTKC_BACKUP_KEEP=0 no backup file is created, the vault is
\* still written, and with the setting left out at most 3 backups are kept.
C7_KeepZeroDisablesBackups ==
  /\ backupKeepEnv = "0" => BackupFiles(fs, VaultPath) = {}
  /\ backupKeepEnv = "unset" => Cardinality(BackupFiles(fs, VaultPath)) <= 3
  /\ saves > 0 => VaultPath \in DOMAIN fs

(* ------------------------ the claims, under SpecKey -------------------- *)

\* C8: ensure on a key file that holds no 32-byte key fails with
\* InvalidKeyFormat and leaves the file as it is; a key is written only when
\* no key file exists; a valid key is returned without being rewritten.
C8_EnsureRejectsInvalidKey ==
  [][\A p \in Procs :
       /\ (VaultInit(p) /\ KeyPath \in DOMAIN fs /\ readVaultKey(fs, KeyPath) = NoKey)
          => /\ proc'[p].pc = "done"
             /\ proc'[p].exit.error = "InvalidKeyFormat"
       /\ (proc[p].cmd = "init" /\ RenameTmp(p) /\ proc[p].target = KeyPath)
          => KeyPath \notin DOMAIN fs
       /\ (VaultInit(p) /\ readVaultKey(fs, KeyPath) # NoKey)
          => /\ proc'[p].key = readVaultKey(fs, KeyPath)
             /\ proc'[p].pc = "load"]_vars

\* C9: key install with force not set, on a path where a key file exists,
\* fails and leaves the file as it is; the key file is replaced only when
\* force is set.
C9_InstallNeedsForce ==
  [][\A p \in Procs :
       /\ \A text \in SuppliedTexts, isTTY \in BOOLEAN, answer \in Answers :
            (KeyInstall(p, text, FALSE, isTTY, answer) /\ KeyPath \in DOMAIN fs)
            => proc'[p].pc = "done" /\ proc'[p].exit.status # 0
       /\ (InstallWrite(p) /\ KeyPath \in DOMAIN fs) => proc[p].force]_vars

(* ------------------ the claims about the iv, under SpecSave ------------ *)

\* C13: no two encryptions under one key used the same iv.
C13_NoncesNeverRepeat ==
  \A i, j \in 1..Len(nonces) : i # j => nonces[i] # nonces[j]

\* C13 witness: a vault that was encrypted before was encrypted twice more
\* under the same key
C13_ThreeEncryptions ==
  /\ Len(nonces) >= 3
  /\ \A i \in 1..Len(nonces) : nonces[i][1] = nonces[1][1]

(* ----------------------- the claims, under SpecCodec ------------------- *)

\* C10: decrypting, under the same key, what encrypt produced gives the data
\* back; and when a save has renamed its file over the vault, loading the
\* vault with the same key returns exactly the data that was saved.
C10_RoundTrip ==
  [][\A p \in Procs :
       (RenameTmp(p) /\ proc[p].target = VaultPath)
       => /\ decryptVaultJson(proc[p].key, proc[p].payload)
               = [error |-> "none", data |-> proc[p].data]
          /\ loadVault(fs', VaultPath, proc[p].key)
               = [error |-> "none", data |-> proc[p].data, exists |-> TRUE,
                  raw |-> {fs'[VaultPath]}]]_vars

\* C10 witness: a vault with two secrets, one of them empty, was saved and
\* loads back
C10_SavedAndLoaded ==
  \E p \in Procs :
    /\ proc[p].pc = "chmod"
    /\ proc[p].target = VaultPath
    /\ HasSecret(proc[p].data, "acme", "prod", "TOKEN")
    /\ HasSecret(proc[p].data, "acme", "prod", "DB_URL")
    /\ proc[p].data["acme"]["prod"]["DB_URL"] = ""
    /\ loadVault(fs, VaultPath, proc[p].key).data = proc[p].data

(* ------------------------ the claims, under SpecLoad ------------------- *)

\* the vault file is there, readable, whole, and in the supported format
LoadableVault ==
  /\ VaultPath \in DOMAIN fs
  /\ Readable(fs[VaultPath])
  /\ fs[VaultPath].complete
  /\ fs[VaultPath].bytes.version = SupportedVersion
  /\ fs[VaultPath].bytes.cipher = "aes-256-gcm"

\* some get command starts in process p
GetStep(p) ==
  \E s \in Services, c \in Categories, k \in KeyNames : Get(p, s, c, k)

\* C11: a load returns data only when the vault file holds an envelope that
\* encryptVaultJson made under the key of the key file, and then it returns
\* the data that was encrypted; with another key, or with any byte of the
\* ciphertext or the tag changed, the command fails with AuthenticationFailed
\* and prints nothing.
C11_OnlyAuthenticEnvelopesDecrypt ==
  [][\A p \in Procs :
       (GetStep(p) /\ LoadableVault)
       => LET key == readVaultKey(fs, KeyPath)
              vo  == fs[VaultPath].bytes
          IN  IF \E d \in LoadDatas : vo = encryptVaultJson(key, vo.iv, d)
              THEN /\ decryptVaultJson(key, vo).error = "none"
                   /\ vo = encryptVaultJson(key, vo.iv, decryptVaultJson(key, vo).data)
                   /\ proc'[p].exit.error # "AuthenticationFailed"
              ELSE /\ proc'[p].exit = Exit(1, "AuthenticationFailed")
                   /\ proc'[p].out = {}]_vars

\* C11 witness: a get ended with AuthenticationFailed on a vault file sealed
\* under the key of the key file whose ciphertext was changed afterwards
C11_TamperedAndRefused ==
  /\ LoadableVault
  /\ fs[VaultPath].bytes.tag.k = readVaultKey(fs, KeyPath)
  /\ fs[VaultPath].bytes.tag.c # fs[VaultPath].bytes.ciphertext
  /\ \E p \in Procs : proc[p].pc = "done" /\ proc[p].exit.error = "AuthenticationFailed"

\* C12: a load of a vault file whose version or cipher is not the supported
\* one fails with UnsupportedFormat whatever the key and the tag are, and
\* the command ends with the error decryptVaultJson threw: UnsupportedFormat
\* and AuthenticationFailed reach the caller as they are.
C12_UnsupportedFormatFirst ==
  [][\A p \in Procs :
       ( /\ GetStep(p)
         /\ VaultPath \in DOMAIN fs
         /\ Readable(fs[VaultPath])
         /\ fs[VaultPath].complete )
       => LET key == readVaultKey(fs, KeyPath)
              vo  == fs[VaultPath].bytes
          IN  /\ (vo.version # 1 \/ vo.cipher # "aes-256-gcm")
                 => proc'[p].exit = Exit(1, "UnsupportedFormat")
              /\ (vo.version = 1 /\ vo.cipher = "aes-256-gcm"
                    /\ vo.tag # AuthTag(key, vo.iv, vo.ciphertext))
                 => proc'[p].exit = Exit(1, "AuthenticationFailed")]_vars

\* C12 witness: a get ended with UnsupportedFormat on a vault file of
\* another version whose tag is not one the key of the key file gives
C12_UnsupportedAndUnauthentic ==
  /\ VaultPath \in DOMAIN fs
  /\ fs[VaultPath].bytes.version # SupportedVersion
  /\ fs[VaultPath].bytes.tag.k # readVaultKey(fs, KeyPath)
  /\ \E p \in Procs : proc[p].pc = "done" /\ proc[p].exit.error = "UnsupportedFormat"

\* C14: load reports exists = false, with empty data, exactly when there is
\* no file at the vault path, and then it creates nothing; a file that is
\* there and cannot be read or parsed makes the command fail with an error.
C14_MissingMeansNoFile ==
  [][\A p \in Procs :
       GetStep(p)
       => LET load == loadVault(fs, VaultPath, readVaultKey(fs, KeyPath))
          IN  /\ VaultPath \notin DOMAIN fs
                 => (~load.exists /\ load.data = EmptyData /\ load.error = "none")
              /\ ~load.exists => VaultPath \notin DOMAIN fs
              /\ (VaultPath \in DOMAIN fs
                    /\ (~Readable(fs[VaultPath]) \/ ~fs[VaultPath].complete))
                 => load.error # "none"
              /\ fs' = fs]_vars

(* ---------------------- the claims, under SpecCommands ----------------- *)

\* what a load of the vault file gives under the key of the key file
PersistedData(dir) == loadVault(dir, VaultPath, readVaultKey(dir, KeyPath)).data

\* no service without a category and no category without a key
NoEmptyMapping(data) ==
  \A s \in DOMAIN data :
    /\ DOMAIN data[s] # {}
    /\ \A c \in DOMAIN data[s] : DOMAIN data[s][c] # {}

\* C17: whatever set, del and import commands ran since the vault was empty,
\* the data of the vault file has no service without a category and no
\* category without a key, and a list of a service prints no category that
\* has no key.
C17_NoEmptyMappingPersists ==
  /\ NoEmptyMapping(PersistedData(fs))
  /\ \A p \in Procs :
       (proc[p].cmd = "list" /\ proc[p].pc = "done" /\ proc[p].exit.status = 0
          /\ proc[p].args.category = "")
       => \A c \in proc[p].out :
            DOMAIN GetOrEmpty(GetOrEmpty(PersistedData(fs), proc[p].args.service), c) # {}

\* C18: a get and a del of a path that is not stored in the vault end with
\* NotFound and status 3, and such a del starts no save and leaves the vault
\* file and the backups as they are.
C18_AbsentPathIsNotFound ==
  [][\A p \in Procs, s \in ArgServices, c \in ArgCategories, k \in ArgKeys :
       ~HasSecret(PersistedData(fs), s, c, k)
       => /\ Get(p, s, c, k) => proc'[p].exit = Exit(3, "NotFound")
          /\ DelCmd(p, s, c, k)
             => /\ proc'[p].exit = Exit(3, "NotFound")
                /\ proc'[p].pc = "done"
                /\ fs' = fs]_vars

\* C19: a set whose value is empty once one newline at its end is taken
\* away ends with EmptyValue and starts no save; a set with any other value
\* goes on to save data in which the path has that value (for a service and
\* a category whose names no object inherits).
C19_BlankValueIsRefused ==
  [][\A p \in Procs, s \in ArgServices \ Inherited, c \in ArgCategories \ Inherited,
        k \in ArgKeys, v \in ArgTexts \cup StdinTexts :
       ( \/ v \in ArgTexts /\ Set(p, s, c, k, v)
         \/ v \in StdinTexts /\ SetStdin(p, s, c, k, v) )
       => IF TrimNewline(v) = ""
          THEN /\ proc'[p].exit = Exit(2, "EmptyValue")
               /\ proc'[p].pc = "done"
               /\ fs' = fs
          ELSE /\ proc'[p].pc = "backup"
               /\ Lookup(proc'[p].data, s, c, k) = {TrimNewline(v)}]_vars

\* what a get of the path prints when the vault holds data
Shown(data, s, c, k) ==
  CASE SecretRef(data, s, c, k) = "own" -> {data[s][c][k]}
    [] SecretRef(data, s, c, k) = "inherited" -> {NativeCode}
    [] OTHER -> {}

\* C20: once a set has put its vault file in place, a get of the same path
\* prints the value of the set, whatever the service, category and key
\* names are, and every other path has the value it had before.
C20_SetThenGet ==
  [][\A p \in Procs :
       (RenameTmp(p) /\ proc[p].cmd = "set")
       => LET a == proc[p].args
          IN  /\ Shown(PersistedData(fs'), a.service, a.category, a.key) = {a.value}
              /\ \A s \in ArgServices, c \in ArgCategories, k \in ArgKeys :
                   <<s, c, k>> # <<a.service, a.category, a.key>>
                   => Lookup(PersistedData(fs'), s, c, k)
                        = Lookup(PersistedData(fs), s, c, k)]_vars

\* C29: whatever set and import commands ran, no secret of the vault file
\* has the empty string as its value.
C29_NoEmptyValueStored ==
  \A s \in DOMAIN PersistedData(fs) :
    \A c \in DOMAIN PersistedData(fs)[s] :
      \A k \in DOMAIN PersistedData(fs)[s][c] : PersistedData(fs)[s][c][k] # ""

(* ------------------------- the claims, under SpecRun ------------------- *)

\* the spec names something the vault stores: a key with a value, or a
\* category with at least one key
Stored(data, sp) ==
  IF sp.kind = "exact" THEN HasSecret(data, sp.service, sp.category, sp.key)
  ELSE /\ sp.service \in DOMAIN data
       /\ sp.category \in DOMAIN data[sp.service]
       /\ DOMAIN data[sp.service][sp.category] # {}

\* the values the spec gives for the name k
Given(data, sp, k) ==
  IF sp.kind = "exact"
  THEN (IF k = sp.key THEN Lookup(data, sp.service, sp.category, k) ELSE {})
  ELSE (IF IsEnvName(k) THEN Lookup(data, sp.service, sp.category, k) ELSE {})

\* process p ran `run` to its end in this step
RunEnds(p, mode) ==
  /\ proc'[p] # proc[p]
  /\ proc'[p].cmd = "run"
  /\ proc'[p].pc = "done"
  /\ proc'[p].child.state # "exited"
  /\ proc'[p].args.mode = mode

\* C21: without --unsafe-values every line of an inspect shows its value
\* redacted: three stars and the length when the value has at most 8
\* characters (so values of one such length look the same), else its first
\* 4 and last 4 characters and the length; the value as it is stored is
\* shown only with --unsafe-values.
C21_InspectShowsRedacted ==
  [][\A p \in Procs :
       (RunEnds(p, "inspect") /\ proc'[p].exit.status = 0)
       => \A line \in proc'[p].out :
            \E i \in 1..Len(proc'[p].args.specs) :
              \E v \in Given(PersistedData(fs), proc'[p].args.specs[i], line.key) :
                LET cs == Chars(v)
                IN  IF proc'[p].args.unsafeValues
                    THEN line.shown = [text |-> cs, len |-> -1]
                    ELSE /\ line.shown.len = Len(cs)
                         /\ line.shown.text # cs
                         /\ IF Len(cs) <= 8
                            THEN line.shown.text = <<"*", "*", "*">>
                            ELSE line.shown.text =
                                   SubSeq(cs, 1, 4) \o <<"...">>
                                     \o SubSeq(cs, Len(cs) - 3, Len(cs))]_vars

\* C21 witness: an inspect printed a value of 8 characters as stars and a
\* longer one by its ends
C21_ShortAndLongRedacted ==
  \E p \in Procs :
    /\ proc[p].cmd = "run" /\ proc[p].pc = "done" /\ proc[p].exit.status = 0
    /\ \E a, b \in proc[p].out :
         /\ a.shown.len = 8 /\ a.shown.text = <<"*", "*", "*">>
         /\ b.shown.len > 8

\* C22: run resolves a wildcard spec to the keys of the category that look
\* like environment names and an exact spec to its one key, each with the
\* stored value and nothing else; when a spec names a secret that is not
\* stored, or a category that is absent or empty, run ends with status 3
\* and prints nothing.
C22_SpecsResolve ==
  [][\A p \in Procs :
       (RunEnds(p, "inspect") /\ proc'[p].args.unsafeValues)
       => LET data  == PersistedData(fs)
              specs == proc'[p].args.specs
              keys  == {k \in ArgKeys \cup KeyNames \cup {"api-key"} :
                          \E i \in 1..Len(specs) : Given(data, specs[i], k) # {}}
          IN  IF \A i \in 1..Len(specs) : Stored(data, specs[i])
              THEN /\ proc'[p].exit.status = 0
                   /\ {line.key : line \in proc'[p].out} = keys
                   /\ \A line \in proc'[p].out :
                        \E i \in 1..Len(specs) :
                          \E v \in Given(data, specs[i], line.key) :
                            line.shown = [text |-> Chars(v), len |-> -1]
              ELSE /\ proc'[p].exit = Exit(3, "NotFound")
                   /\ proc'[p].out = {}]_vars

\* C27: the command of run gets every resolved key with the value of the
\* store, whatever process.env and the dotenv file hold; a name of
\* process.env that no spec resolves keeps its value unless the dotenv file
\* has it and --dotenv-override is given; with --dotenv the other entries of
\* the dotenv file are there too.
C27_EnvLayers ==
  [][\A p \in Procs :
       ( /\ RunEnds(p, "exec")
         /\ \A i \in 1..Len(proc'[p].args.specs) :
              Stored(PersistedData(fs), proc'[p].args.specs[i]) )
       => LET a        == proc'[p].args
              env      == proc'[p].child.env
              resolved == Resolve(PersistedData(fs), a.specs, EmptyData).resolved
          IN  /\ proc'[p].child.state = "running"
              /\ \A k \in DOMAIN resolved : k \in DOMAIN env /\ env[k] = resolved[k]
              /\ \A k \in DOMAIN a.processEnv \ DOMAIN resolved :
                   /\ k \in DOMAIN env
                   /\ env[k] = IF a.enableDotenv /\ a.dotenvOverride /\ k \in DOMAIN a.parsed
                               THEN a.parsed[k] ELSE a.processEnv[k]
              /\ a.enableDotenv
                 => \A k \in DOMAIN a.parsed \ (DOMAIN resolved \cup DOMAIN a.processEnv) :
                      k \in DOMAIN env /\ env[k] = a.parsed[k]]_vars

\* C30: a run that spawned a command is gone only once the command has
\* exited, and then with the exit code of the command.
C30_ExitsWithChild ==
  \A p \in Procs :
    (proc[p].child.state # "none" /\ proc[p].pc = "done")
    => /\ proc[p].child.state = "exited"
       /\ proc[p].exit.status = proc[p].child.code

(* ------------------------ the claims, under SpecInit ------------------- *)

\* C25: the file a successful write leaves has mode 0600, whatever mode a
\* file at that path had: the vault file or key file when atomicWriteFile
\* returns, the key file when key install or init has written and chmod-ed
\* it, and the backup file when the snapshot is taken.
C25_WrittenFilesAre0600 ==
  [][\A p \in Procs :
       /\ Chmod(p) => fs'[proc[p].target].mode = Mode600
       /\ InstallChmod(p) => fs'[KeyPath].mode = Mode600
       /\ (Backup(p, "ok") /\ HasVaultToBackUp(fs, VaultPath))
          => LET backupPath == BackupPath(VaultPath, timestampId(now))
             IN  backupPath \in DOMAIN fs' => fs'[backupPath].mode = Mode600]_vars

\* C25 witness: a snapshot with mode 0600 was taken of a vault file whose
\* mode is 0644, before the save replaces that file
C25_SnapshotOfOpenVault ==
  \E p \in Procs :
    /\ proc[p].pc = "write"
    /\ proc[p].snapshot = "taken"
    /\ fs[VaultPath].mode = Mode644
    /\ \E b \in BackupFiles(fs, VaultPath) : fs[b].mode = Mode600

\* C28: when init has ended and the key file holds a key, the vault file, if
\* there is one, decrypts under that key.
C28_InitLeavesKeyAndVaultMatched ==
  \A p \in Procs :
    ( /\ proc[p].cmd = "init"
      /\ proc[p].pc = "done"
      /\ VaultPath \in DOMAIN fs
      /\ readVaultKey(fs, KeyPath) # NoKey )
    => loadVault(fs, VaultPath, readVaultKey(fs, KeyPath)).error = "none"

(* ------------------------ the claims, under SpecRead ------------------- *)

\* C26: no step of status, get, list or run in inspect mode changes a file,
\* whether the key file is missing, malformed or a key, and whether the
\* vault file is missing, decrypts or does not.
C26_ReadOnlyCommands ==
  [][\A p \in Procs :
       (proc'[p] # proc[p] /\ proc'[p].cmd \in {"status", "get", "list", "run"})
         => fs' = fs]_vars

\* C26 witness: status has ended with status 2 on a machine that has a vault
\* file and no key file, and there is still no key file
C26_StatusWithoutKey ==
  \E p \in Procs :
    /\ proc[p].pc = "done"
    /\ proc[p].cmd = "status"
    /\ ~proc[p].exit.status = 0
    /\ KeyPath \notin DOMAIN fs
    /\ VaultPath \in DOMAIN fs

(* ------------------------ the claims, under SpecCopy ------------------- *)

\* C23: a copy onto a category that has keys, without --force, ends with
\* DestinationExists and starts no save, the files staying as they are; the
\* vault file a copy with --force puts in place lists the same keys for the
\* destination category as for the source category.
C23_CopyNeedsForce ==
  [][\A p \in Procs :
       /\ ( /\ proc'[p] # proc[p]
            /\ proc'[p].cmd = "copy"
            /\ proc[p].pc \in {"idle", "done"}
            /\ readVaultKey(fs, KeyPath) # NoKey
            /\ ListOut(PersistedData(fs), proc'[p].args.src.service,
                       proc'[p].args.src.category) # {}
            /\ ListOut(PersistedData(fs), proc'[p].args.dst.service,
                       proc'[p].args.dst.category) # {}
            /\ ~proc'[p].args.force )
          => /\ proc'[p].pc = "done"
             /\ proc'[p].exit.error = "DestinationExists"
             /\ fs' = fs
       /\ (RenameTmp(p) /\ proc[p].cmd = "copy" /\ proc[p].args.force)
          => ListOut(PersistedData(fs'), proc[p].args.dst.service,
                     proc[p].args.dst.category)
               = ListOut(PersistedData(fs'), proc[p].args.src.service,
                         proc[p].args.src.category)]_vars

\* C23 witness: a copy with --force has put its vault file in place, and in
\* the vault file before it (the snapshot) the destination category had
\* keys, and not those of the source category
C23_ForcedOverwrite ==
  \E p \in Procs :
    /\ proc[p].cmd = "copy" /\ proc[p].pc = "chmod" /\ proc[p].args.force
    /\ \E b \in BackupFiles(fs, VaultPath) :
         LET old == loadVault(fs, b, proc[p].key).data
             dst == proc[p].args.dst
             src == proc[p].args.src
         IN  /\ ListOut(old, dst.service, dst.category) # {}
             /\ ListOut(old, dst.service, dst.category)
                  # ListOut(old, src.service, src.category)

====
